---- MODULE Spec2Model ----
(***************************************************************************)
(* A model of commy: the configuration loader (config_utils.py), the Git   *)
(* adapter (git_utils.py), the message generator (ai_utils.py) and the     *)
(* interactive `generate` command (main.py).                               *)
(*                                                                         *)
(* Text is a sequence of one-character strings.  A YAML / Python value is  *)
(* a node [kind, items, val]: kind "dict" with items a function from keys  *)
(* to nodes, kind "scalar" with val the value, kind "none" for None.       *)
(***************************************************************************)
EXTENDS Integers, Sequences, FiniteSets, TLC

VARIABLES
    DEFAULT_CONFIG,   \* config_utils.DEFAULT_CONFIG, the module-level dict (items of the top-level dict)
    cfg_file,         \* the configuration file as the last load_config() call found it
    cfg_result,       \* what that call returned (a node), or NoResult
    cfg_raised,       \* TRUE when that call raised instead of returning
    cfg_printed,      \* what that call printed
    pc,               \* position of the generate command
    env_api_key,      \* the COMMY_API_KEY environment variable of the process
    exit_code,        \* the status the process ends with (0 unless sys.exit says otherwise)
    console,          \* the kind of the last message printed on the console
    truncate_length,  \* main.py truncate_length
    raw_diff,         \* stdout of `git diff --cached` as get_staged_diff read it
    diff,             \* main.py diff
    is_truncated,     \* main.py is_truncated
    api_key,          \* OpenAIProvider.api_key of the provider in use
    commit_message,   \* main.py commit_message
    choice,           \* main.py choice (the last answer, lower-cased)
    commit_argv,      \* the argument vector of the last `git commit` subprocess
    gen_calls,        \* number of calls to generate_commit_message
    gen_failed,       \* TRUE once a call to generate_commit_message raised
    last_generated,   \* the value the last successful generate_commit_message returned
    regens,           \* number of regenerate choices made
    commit_calls,     \* number of calls to commit_changes
    committed,        \* the message passed to the last commit_changes call
    commit_result,    \* what the last commit_changes call returned
    diff_reads,       \* number of calls to get_staged_diff
    staged_result     \* what has_staged_changes() returned, or "unknown"

cfgVars == <<cfg_file, cfg_result, cfg_raised, cfg_printed>>
ctlVars == <<pc, env_api_key, exit_code, console, truncate_length, raw_diff, diff,
             is_truncated, api_key, commit_message, choice, commit_argv, gen_calls,
             gen_failed, last_generated, regens, commit_calls, committed, commit_result,
             diff_reads, staged_result>>
vars == <<DEFAULT_CONFIG, cfgVars, ctlVars>>

-----------------------------------------------------------------------------
(* Bounds *)

MaxDiffLen == 2
MaxMsgLen == 3
MaxRegens == 2

-----------------------------------------------------------------------------
(* Text *)

DiffChars == {"a", "b"}
MsgChars == {"a", " ", "\"", "\\"}

TextsOver(chars, n) == UNION {[1..k -> chars] : k \in 0..n}

Take(s, n) == SubSeq(s, 1, IF n < Len(s) THEN n ELSE Len(s))

\* str.lower(), on the answers and provider names the model draws
Lower(s) ==
    CASE s = "Y" -> "y"
      [] s = "YES" -> "yes"
      [] s = "R" -> "r"
      [] s = "N" -> "n"
      [] s = "NO" -> "no"
      [] s = "X" -> "x"
      [] s = "OpenAI" -> "openai"
      [] OTHER -> s

RECURSIVE LStrip(_)
LStrip(s) == IF s # <<>> /\ Head(s) = " " THEN LStrip(Tail(s)) ELSE s

RECURSIVE RStrip(_)
RStrip(s) == IF s # <<>> /\ s[Len(s)] = " " THEN RStrip(SubSeq(s, 1, Len(s) - 1)) ELSE s

\* str.strip()
Strip(s) == RStrip(LStrip(s))

\* str.replace(old, new) for a one-character old and a text new
RECURSIVE Replace(_, _, _)
Replace(s, old, new) ==
    IF s = <<>> THEN <<>>
    ELSE (IF Head(s) = old THEN new ELSE <<Head(s)>>) \o Replace(Tail(s), old, new)

-----------------------------------------------------------------------------
(* Configuration values *)

NoItems == [k \in {} |-> k]

Scalar(x) == [kind |-> "scalar", items |-> NoItems, val |-> x]
Dict(items) == [kind |-> "dict", items |-> items, val |-> ""]
NoneNode == [kind |-> "none", items |-> NoItems, val |-> ""]
NoResult == [kind |-> "noresult", items |-> NoItems, val |-> ""]

IsDict(node) == node.kind = "dict"

DefaultTruncationLimit == 4000

DefaultAi ==
    [provider |-> Scalar("openai"),
     model |-> Scalar("gpt-3.5-turbo"),
     temperature |-> Scalar("0.7"),
     max_tokens |-> Scalar(100),
     api_key |-> Scalar("")]

\* the literal DEFAULT_CONFIG is bound to when the module is imported
DefaultConfigLiteral ==
    [ai |-> Dict(DefaultAi),
     commit_style |-> Scalar("conventional"),
     diff_truncation_limit |-> Scalar(DefaultTruncationLimit)]

TopKeys == {"ai", "commit_style", "diff_truncation_limit"}
AiKeys == {"provider", "model", "temperature", "max_tokens", "api_key"}

\* _merge_dicts(base, overlay): the items of base once the call has returned
RECURSIVE MergeDicts(_, _)
MergeDicts(base, overlay) ==
    [k \in DOMAIN base \cup DOMAIN overlay |->
        IF k \notin DOMAIN overlay THEN base[k]
        ELSE IF k \in DOMAIN base /\ IsDict(base[k]) /\ IsDict(overlay[k])
             THEN Dict(MergeDicts(base[k].items, overlay[k].items))
             ELSE overlay[k]]

\* DEFAULT_CONFIG.copy() is a shallow copy: the copy has its own top-level
\* items and shares every nested dict with the original.  This is the
\* original after _merge_dicts(copy, overlay): an item assigned at the top
\* level lands in the copy alone, a nested dict merged recursively is the
\* shared object and changes in the original too.
OriginalAfterMerge(original, overlay) ==
    [k \in DOMAIN original |->
        IF k \in DOMAIN overlay /\ IsDict(original[k]) /\ IsDict(overlay[k])
        THEN Dict(MergeDicts(original[k].items, overlay[k].items))
        ELSE original[k]]

\* Python truth value of what yaml.safe_load returned
Truthy(doc) ==
    CASE doc.kind = "none" -> FALSE
      [] doc.kind = "dict" -> DOMAIN doc.items # {}
      [] OTHER -> TRUE

\* The configuration file as a load_config() call finds it:
\*   state "absent"     no file; writable says whether it can be created
\*   state "unreadable" open() raises
\*   state "malformed"  yaml.safe_load raises
\*   state "present"    yaml.safe_load returns doc
File(state, writable, doc) == [state |-> state, writable |-> writable, doc |-> doc]

\* load_config(): [raised, ret, defaults, file, out], the defaults being
\* DEFAULT_CONFIG after the call and file the file after the call
LoadConfig(defaults, f) ==
    LET created == f.state = "absent" /\ f.writable
        \* create_default_config dumps DEFAULT_CONFIG; safe_load reads it back
        g == IF created THEN File("present", TRUE, Dict(defaults)) ELSE f
        note == IF created THEN {"created"} ELSE {}
    IN  IF f.state = "absent" /\ ~f.writable
        THEN [raised |-> TRUE, ret |-> NoResult, defaults |-> defaults, file |-> f, out |-> {}]
        ELSE IF g.state \in {"unreadable", "malformed"}
                \/ (Truthy(g.doc) /\ ~IsDict(g.doc))
        THEN [raised |-> FALSE, ret |-> Dict(defaults), defaults |-> defaults,
              file |-> g, out |-> note \cup {"error_loading", "using_default"}]
        ELSE IF Truthy(g.doc)
        THEN [raised |-> FALSE, ret |-> Dict(MergeDicts(defaults, g.doc.items)),
              defaults |-> OriginalAfterMerge(defaults, g.doc.items),
              file |-> g, out |-> note]
        ELSE [raised |-> FALSE, ret |-> Dict(defaults), defaults |-> defaults,
              file |-> g, out |-> note]

-----------------------------------------------------------------------------
(* The configuration files the model draws *)

AiFileKeys == {"provider", "api_key"}
ProviderChoices == {"OpenAI", "anthropic"}

BuildAi(S, p) ==
    [k \in S |-> IF k = "provider" THEN Scalar(p) ELSE Scalar("sk-test")]

\* what a file may hold under "ai": a mapping over some of the keys, or a scalar
AiOverlays ==
    {Dict(BuildAi(S, p)) : S \in SUBSET AiFileKeys, p \in ProviderChoices}
        \cup {Scalar("oops")}

\* the truncation limits the files set
LimitChoices == {0, 1}

BuildTop(S, a, l) ==
    [k \in S |-> CASE k = "ai" -> a
                   [] k = "commit_style" -> Scalar("simple")
                   [] OTHER -> Scalar(l)]

Docs ==
    {Dict(BuildTop(S, a, l)) : S \in SUBSET TopKeys, a \in AiOverlays, l \in LimitChoices}
        \cup {NoneNode, Scalar("text")}

Files ==
    {File("present", TRUE, d) : d \in Docs}
        \cup {File("absent", w, NoneNode) : w \in BOOLEAN}
        \cup {File("unreadable", TRUE, NoneNode), File("malformed", TRUE, NoneNode)}

NoFile == File("never_read", TRUE, NoneNode)

-----------------------------------------------------------------------------
(* git_utils.py *)

\* a finished subprocess: its exit status and its stdout
Proc(returncode, stdout) == [returncode |-> returncode, stdout |-> stdout]

\* str.strip() on what `git rev-parse --is-inside-work-tree` prints
StripLine(s) ==
    CASE s = "true\n" -> "true"
      [] s = "false\n" -> "false"
      [] OTHER -> s

\* is_git_repository(); found = FALSE when the git binary is missing
IsGitRepository(found, proc) ==
    found /\ proc.returncode = 0 /\ StripLine(proc.stdout) = "true"

\* the lines `git diff --cached --name-only` may print
NameListings == {<<>>, <<"a.py">>, <<"a.py", "b.py">>}

\* has_staged_changes(); check=True turns a non-zero exit into False
HasStagedChanges(proc) ==
    IF proc.returncode # 0 THEN FALSE ELSE proc.stdout # <<>>

TruncationMarker ==
    <<"\n", "[", ".", ".", ".", " ", "d", "i", "f", "f", " ", "t", "r", "u", "n",
      "c", "a", "t", "e", "d", " ", "d", "u", "e", " ", "t", "o", " ", "s", "i",
      "z", "e", " ", ".", ".", ".", "]">>

\* get_staged_diff(truncate_length) on a successful `git diff --cached`
GetStagedDiff(stdout, limit) ==
    IF limit # 0 /\ Len(stdout) > limit
    THEN [text |-> Take(stdout, limit) \o TruncationMarker, truncated |-> TRUE]
    ELSE [text |-> stdout, truncated |-> FALSE]

CommitArgv_Unescaped(message) == <<"git", "commit", "-m", message>>

\* commit_changes: the argument vector handed to subprocess.run
CommitArgv(message) ==
    <<"git", "commit", "-m", Replace(message, "\"", <<"\\", "\"">>)>>

\* commit_changes: its return value, given the exit status of git commit
CommitChanges(returncode) == returncode = 0

-----------------------------------------------------------------------------
(* ai_utils.py *)

\* the completion texts the endpoint answers with
Completions == {<<"a">>, <<" ", "a", " ">>, <<"a", " ", "\"", "b", "\"">>}

\* what the HTTP call to the completion endpoint may come to
HttpOutcomes ==
    {[status |-> "error", content |-> <<>>], [status |-> "malformed", content |-> <<>>]}
        \cup {[status |-> "ok", content |-> c] : c \in Completions}

Raised(defaults) == [raised |-> TRUE, value |-> "", defaults |-> defaults, file |-> NoFile]

\* get_api_key(): the environment variable wins over the file
GetApiKey(defaults, f, env) ==
    LET l == LoadConfig(defaults, f)
    IN  IF l.raised THEN Raised(l.defaults)
        ELSE IF env # "" THEN [raised |-> FALSE, value |-> env, defaults |-> l.defaults, file |-> l.file]
        ELSE IF ~IsDict(l.ret.items.ai) THEN Raised(l.defaults)
        ELSE [raised |-> FALSE, value |-> l.ret.items.ai.items.api_key.val,
              defaults |-> l.defaults, file |-> l.file]

\* get_ai_provider(): value is the api key the provider is built with
GetAiProvider(defaults, f, env) ==
    LET l == LoadConfig(defaults, f)
    IN  IF l.raised THEN Raised(l.defaults)
        ELSE LET k == GetApiKey(l.defaults, l.file, env)
             IN  IF k.raised THEN k
                 ELSE IF ~IsDict(l.ret.items.ai) THEN Raised(k.defaults)
                 ELSE IF Lower(l.ret.items.ai.items.provider.val) # "openai" THEN Raised(k.defaults)
                 ELSE k

\* OpenAIProvider.generate_commit_message
OpenAIGenerate(key, http) ==
    IF key = "" THEN [raised |-> TRUE, value |-> <<>>]
    ELSE IF http.status # "ok" THEN [raised |-> TRUE, value |-> <<>>]
    ELSE [raised |-> FALSE, value |-> Strip(http.content)]

\* generate_commit_message(diff) up to the provider get_ai_provider() returns
\* (lines 143-150): [raised, value, defaults], value being the provider's api
\* key; the file is f at each of the three load_config() calls
GenerateCommitMessageProvider(defaults, f, env) ==
    LET l == LoadConfig(defaults, f)
    IN  IF l.raised THEN Raised(l.defaults)
        ELSE GetAiProvider(l.defaults, l.file, env)

AssignMessage_Dropped(old, generated) == old

\* line 114 and line 83: commit_message = generate_commit_message(diff)
AssignMessage(old, generated) == generated

AfterCommit_RetryOnFailure(ok) == IF ok THEN "done" ELSE "review"

\* line 107: break after commit_changes, whatever it returned
AfterCommit(ok) == "done"

AfterInvalid_Break == "done"

\* line 128: the loop goes round to the prompt
AfterInvalid == "review"

-----------------------------------------------------------------------------
(* The generate command before its first step *)

CtlRest ==
    /\ exit_code = 0
    /\ console = "nothing"
    /\ truncate_length = DefaultTruncationLimit
    /\ raw_diff = <<>>
    /\ diff = <<>>
    /\ is_truncated = FALSE
    /\ api_key = ""
    /\ choice = ""
    /\ commit_argv = <<>>
    /\ gen_calls = 0
    /\ gen_failed = FALSE
    /\ last_generated = <<>>
    /\ regens = 0
    /\ commit_calls = 0
    /\ committed = <<>>
    /\ commit_result = FALSE
    /\ diff_reads = 0
    /\ staged_result = "unknown"

CtlInit ==
    /\ pc = "check_repo"
    /\ commit_message = <<>>
    /\ CtlRest

CfgInit ==
    /\ DEFAULT_CONFIG = DefaultConfigLiteral
    /\ cfg_file = NoFile
    /\ cfg_result = NoResult
    /\ cfg_raised = FALSE
    /\ cfg_printed = {}

-----------------------------------------------------------------------------
(* main.py: the generate command, one action per step *)

Exit(code) == pc' = "done" /\ exit_code' = code

Say(what) == console' = what

\* lines 43-48
CheckRepo ==
    /\ pc = "check_repo"
    /\ \E found \in BOOLEAN, rc \in {0, 128}, out \in {"true\n", "false\n", ""} :
          IF IsGitRepository(found, Proc(rc, out))
          THEN /\ pc' = "check_staged"
               /\ UNCHANGED <<exit_code, console>>
          ELSE /\ Exit(1)
               /\ Say("not_a_repository")
    /\ UNCHANGED <<DEFAULT_CONFIG, cfgVars, env_api_key, truncate_length, raw_diff, diff,
                   is_truncated, api_key, commit_message, choice, commit_argv, gen_calls,
                   gen_failed, last_generated, regens, commit_calls, committed,
                   commit_result, diff_reads, staged_result>>

NoStagedChanges_FallThrough ==
    /\ Say("no_staged_changes")
    /\ pc' = "staged_files"
    /\ UNCHANGED exit_code

\* lines 52-55
NoStagedChanges ==
    /\ Say("no_staged_changes")
    /\ Exit(0)

\* lines 50-55
CheckStaged ==
    /\ pc = "check_staged"
    /\ \E rc \in {0, 128}, out \in NameListings :
          IF HasStagedChanges(Proc(rc, out))
          THEN /\ pc' = "staged_files"
               /\ staged_result' = "true"
               /\ UNCHANGED <<exit_code, console>>
          ELSE /\ staged_result' = "false"
               /\ NoStagedChanges
    /\ UNCHANGED <<DEFAULT_CONFIG, cfgVars, env_api_key, truncate_length, raw_diff, diff,
                   is_truncated, api_key, commit_message, choice, commit_argv, gen_calls,
                   gen_failed, last_generated, regens, commit_calls, committed,
                   commit_result, diff_reads>>

\* lines 57-59: the list is only shown; a RuntimeError from get_staged_files
\* is not caught
StagedFiles ==
    /\ pc = "staged_files"
    /\ \E rc \in {0, 128}, out \in NameListings :
          IF rc = 0
          THEN /\ pc' = "load_config"
               /\ Say("staged_files")
               /\ UNCHANGED exit_code
          ELSE /\ Exit(1)
               /\ UNCHANGED console
    /\ UNCHANGED <<DEFAULT_CONFIG, cfgVars, env_api_key, truncate_length, raw_diff, diff,
                   is_truncated, api_key, commit_message, choice, commit_argv, gen_calls,
                   gen_failed, last_generated, regens, commit_calls, committed,
                   commit_result, diff_reads, staged_result>>

\* lines 61-63; an exception from load_config is not caught
ReadConfig ==
    /\ pc = "load_config"
    /\ \E f \in Files :
          LET l == LoadConfig(DEFAULT_CONFIG, f)
          IN  /\ DEFAULT_CONFIG' = l.defaults
              /\ IF l.raised
                 THEN /\ Exit(1)
                      /\ UNCHANGED truncate_length
                 ELSE /\ truncate_length' = l.ret.items.diff_truncation_limit.val
                      /\ pc' = "read_diff"
                      /\ UNCHANGED exit_code
    /\ UNCHANGED <<cfgVars, env_api_key, console, raw_diff, diff,
                   is_truncated, api_key, commit_message, choice, commit_argv, gen_calls,
                   gen_failed, last_generated, regens, commit_calls, committed,
                   commit_result, diff_reads, staged_result>>

\* lines 65-78 (the --verbose panel shows the diff and changes nothing)
ReadDiff ==
    /\ pc = "read_diff"
    /\ diff_reads' = diff_reads + 1
    /\ \E rc \in {0, 128}, out \in TextsOver(DiffChars, MaxDiffLen) :
          IF rc = 0
          THEN LET d == GetStagedDiff(out, truncate_length)
               IN  /\ raw_diff' = out
                   /\ diff' = d.text
                   /\ is_truncated' = d.truncated
                   /\ Say(IF d.truncated THEN "diff_truncated" ELSE console)
                   /\ pc' = "generate"
                   /\ UNCHANGED exit_code
          ELSE /\ Exit(1)
               /\ Say("diff_error")
               /\ UNCHANGED <<raw_diff, diff, is_truncated>>
    /\ UNCHANGED <<DEFAULT_CONFIG, cfgVars, env_api_key, truncate_length,
                   api_key, commit_message, choice, commit_argv, gen_calls,
                   gen_failed, last_generated, regens, commit_calls, committed,
                   commit_result, staged_result>>

GenerationFailed_BackToPrompt ==
    /\ gen_failed' = TRUE
    /\ Say("regenerate_error")
    /\ pc' = "review"
    /\ UNCHANGED <<exit_code, commit_message, last_generated>>

\* the except branches of lines 84-88 and 117-121
GenerationFailed ==
    /\ gen_failed' = TRUE
    /\ Exit(1)
    /\ Say(IF pc = "generate" \/ (pc = "http" /\ regens = 0)
           THEN "generate_error" ELSE "regenerate_error")
    /\ UNCHANGED <<commit_message, last_generated>>

\* lines 83 and 114 calling generate_commit_message(diff), up to the provider
\* it builds (ai_utils.py lines 143-150)
GenerateProvider ==
    /\ pc \in {"generate", "regenerate"}
    /\ gen_calls' = gen_calls + 1
    /\ \E f \in Files :
          LET p == GenerateCommitMessageProvider(DEFAULT_CONFIG, f, env_api_key)
          IN  /\ DEFAULT_CONFIG' = p.defaults
              /\ IF p.raised
                 THEN /\ GenerationFailed
                      /\ UNCHANGED api_key
                 ELSE /\ api_key' = p.value
                      /\ pc' = "http"
                      /\ UNCHANGED <<gen_failed, exit_code, console, commit_message,
                                     last_generated>>
    /\ UNCHANGED <<cfgVars, env_api_key, truncate_length, raw_diff, diff, is_truncated,
                   choice, commit_argv, regens, commit_calls, committed,
                   commit_result, diff_reads, staged_result>>

\* the rest of that call (ai_utils.py line 151), the assignment of its result
\* and lines 90-92 or 115-116
GenerateMessage ==
    /\ pc = "http"
    /\ \E http \in HttpOutcomes :
          LET g == OpenAIGenerate(api_key, http)
          IN  IF g.raised
              THEN GenerationFailed
              ELSE /\ commit_message' = AssignMessage(commit_message, g.value)
                   /\ last_generated' = g.value
                   /\ Say(IF regens = 0 THEN "generated" ELSE "regenerated")
                   /\ pc' = "review"
                   /\ UNCHANGED <<gen_failed, exit_code>>
    /\ UNCHANGED <<DEFAULT_CONFIG, cfgVars, env_api_key, truncate_length, raw_diff, diff,
                   is_truncated, api_key, choice, commit_argv, gen_calls, regens,
                   commit_calls, committed, commit_result, diff_reads, staged_result>>

\* what the user may type at the prompt
Answers == {"", "y", "Y", "yes", "YES", "r", "R", "regenerate", "n", "N", "no", "NO",
            "x", "X"}

AcceptChoices == {"y", "yes"}
RegenerateChoices == {"r", "regenerate"}
AbortChoices == {"n", "no"}

\* lines 96-99: typer.prompt with default "y", lower-cased
PromptChoice(typed) == Lower(IF typed = "" THEN "y" ELSE typed)

Prompted(c) ==
    /\ pc = "review"
    /\ c \in {PromptChoice(typed) : typed \in Answers}
    /\ choice' = c

\* lines 101-107
ReviewAccept ==
    /\ \E c \in AcceptChoices : Prompted(c)
    /\ commit_calls' = commit_calls + 1
    /\ committed' = commit_message
    /\ commit_argv' = CommitArgv(commit_message)
    /\ \E rc \in {0, 1} :
          /\ commit_result' = CommitChanges(rc)
          /\ Say(IF CommitChanges(rc) THEN "commit_successful" ELSE "commit_failed")
          /\ pc' = AfterCommit(CommitChanges(rc))
    /\ UNCHANGED <<DEFAULT_CONFIG, cfgVars, env_api_key, exit_code, truncate_length, raw_diff,
                   diff, is_truncated, api_key, commit_message, gen_calls, gen_failed,
                   last_generated, regens, diff_reads, staged_result>>

\* lines 108-112: back to generate_commit_message with the same diff
ReviewRegenerate ==
    /\ \E c \in RegenerateChoices : Prompted(c)
    /\ regens < MaxRegens
    /\ regens' = regens + 1
    /\ pc' = "regenerate"
    /\ UNCHANGED <<DEFAULT_CONFIG, cfgVars, env_api_key, exit_code, console,
                   truncate_length, raw_diff, diff, is_truncated, api_key, commit_message,
                   commit_argv, gen_calls, gen_failed, last_generated, commit_calls,
                   committed, commit_result, diff_reads, staged_result>>

\* lines 122-126
ReviewAbort ==
    /\ \E c \in AbortChoices : Prompted(c)
    /\ Say("aborted")
    /\ Exit(0)
    /\ UNCHANGED <<DEFAULT_CONFIG, cfgVars, env_api_key, truncate_length, raw_diff, diff,
                   is_truncated, api_key, commit_message, commit_argv, gen_calls,
                   gen_failed, last_generated, regens, commit_calls, committed,
                   commit_result, diff_reads, staged_result>>

\* lines 127-128
ReviewInvalid ==
    /\ \E c \in {PromptChoice(t) : t \in Answers}
                  \ (AcceptChoices \cup RegenerateChoices \cup AbortChoices) :
          Prompted(c)
    /\ Say("invalid_choice")
    /\ pc' = AfterInvalid
    /\ UNCHANGED <<DEFAULT_CONFIG, cfgVars, env_api_key, exit_code, truncate_length,
                   raw_diff, diff, is_truncated, api_key, commit_message, commit_argv,
                   gen_calls, gen_failed, last_generated, regens, commit_calls,
                   committed, commit_result, diff_reads, staged_result>>

Init ==
    /\ CfgInit
    /\ CtlInit
    /\ env_api_key \in {"", "sk-env"}

Next ==
    \/ CheckRepo
    \/ CheckStaged
    \/ StagedFiles
    \/ ReadConfig
    \/ ReadDiff
    \/ GenerateProvider
    \/ GenerateMessage
    \/ ReviewAccept
    \/ ReviewRegenerate
    \/ ReviewAbort
    \/ ReviewInvalid

Spec == Init /\ [][Next]_vars

-----------------------------------------------------------------------------
(* commit_changes(message) called with any message *)

CommitChangesCall ==
    /\ pc = "commit_changes"
    /\ commit_calls' = commit_calls + 1
    /\ committed' = commit_message
    /\ commit_argv' = CommitArgv(commit_message)
    /\ \E rc \in {0, 1} :
          /\ commit_result' = CommitChanges(rc)
          /\ Say(IF CommitChanges(rc) THEN console ELSE "commit_failed_stderr")
    /\ pc' = "returned"
    /\ UNCHANGED <<DEFAULT_CONFIG, cfgVars, env_api_key, exit_code, truncate_length,
                   raw_diff, diff, is_truncated, api_key, commit_message, choice,
                   gen_calls, gen_failed, last_generated, regens, diff_reads,
                   staged_result>>

InitCommit ==
    /\ CfgInit
    /\ CtlRest
    /\ env_api_key = ""
    /\ pc = "commit_changes"
    /\ commit_message \in TextsOver(MsgChars, MaxMsgLen)

NextCommit == CommitChangesCall

SpecCommit == InitCommit /\ [][NextCommit]_vars

-----------------------------------------------------------------------------
(* Claims about the generate command *)

Accepted == pc = "done" /\ choice \in AcceptChoices

\* C1: after n regenerate choices (each generation succeeding) and then yes,
\* generate_commit_message has been called n + 1 times, commit_changes once,
\* and the message it was passed is the result of the last generation call.
C1_RegenerateThenYes ==
    Accepted =>
        /\ gen_calls = regens + 1
        /\ commit_calls = 1
        /\ committed = last_generated

C1_Witness ==
    /\ Accepted
    /\ regens = 2
    /\ gen_calls = 3
    /\ commit_calls = 1
    /\ committed = <<"a", " ", "\"", "b", "\"">>

\* C2: once a call to generate_commit_message has raised, the command has
\* exited with code 1, commit_changes has not been called and the staged diff
\* has been read exactly once.
C2_GenerationFailureIsTerminal ==
    gen_failed =>
        /\ pc = "done"
        /\ exit_code = 1
        /\ commit_calls = 0
        /\ diff_reads = 1

C2_Witness == gen_failed /\ regens >= 1 /\ pc = "done"

\* C3: when has_staged_changes() returned false the command has exited with
\* code 0 after the warning, without a generation call, without reading the
\* staged diff and without a commit.
C3_NoStagedChangesExitsZero ==
    staged_result = "false" =>
        /\ pc = "done"
        /\ exit_code = 0
        /\ console = "no_staged_changes"
        /\ gen_calls = 0
        /\ diff_reads = 0
        /\ commit_calls = 0

C3_Witness == staged_result = "false" /\ pc = "done"

\* C4: get_staged_diff(T) returns the text unmodified and truncated = false
\* when its length is at most T, and otherwise the first T characters followed
\* by the marker and truncated = true, for every limit T including 0.
C4_TruncationAtEveryLimit ==
    pc = "generate" =>
        IF Len(raw_diff) <= truncate_length
        THEN diff = raw_diff /\ ~is_truncated
        ELSE /\ diff = SubSeq(raw_diff, 1, truncate_length) \o TruncationMarker
             /\ Len(diff) = truncate_length + Len(TruncationMarker)
             /\ is_truncated

ClosedChoices == AcceptChoices \cup RegenerateChoices \cup AbortChoices

-----------------------------------------------------------------------------
(* Claims about commit_changes *)

\* the text with the backslash in front of each double quote taken away
RECURSIVE Unescaped(_)
Unescaped(s) ==
    IF s = <<>> THEN <<>>
    ELSE IF Len(s) >= 2 /\ s[1] = "\\" /\ s[2] = "\""
         THEN <<"\"">> \o Unescaped(SubSeq(s, 3, Len(s)))
         ELSE <<Head(s)>> \o Unescaped(Tail(s))

\* C7: commit_changes(message) runs git commit with the message as the one
\* argument after -m, each of its double quotes escaped with a backslash.
C7_MessageIsOneEscapedArgument ==
    pc = "returned" =>
        /\ Len(commit_argv) = 4
        /\ SubSeq(commit_argv, 1, 3) = <<"git", "commit", "-m">>
        /\ \A i \in 1..Len(commit_argv[4]) :
              commit_argv[4][i] = "\"" => i > 1 /\ commit_argv[4][i - 1] = "\\"
        /\ Unescaped(commit_argv[4]) = committed

C7_Witness ==
    /\ pc = "returned"
    /\ committed = <<"a", "\"", "a">>
    /\ commit_argv[4] = <<"a", "\\", "\"", "a">>

-----------------------------------------------------------------------------
(* A long-lived process calling load_config() again and again, the file    *)
(* being whatever it is at each call                                       *)

LoadConfigCall ==
    \E f \in Files :
        LET r == LoadConfig(DEFAULT_CONFIG, f)
        IN  /\ DEFAULT_CONFIG' = r.defaults
            /\ cfg_file' = f
            /\ cfg_result' = r.ret
            /\ cfg_raised' = r.raised
            /\ cfg_printed' = r.out
            /\ UNCHANGED ctlVars

InitConfig == CfgInit /\ CtlInit /\ env_api_key = ""

NextConfig == LoadConfigCall

SpecConfig == InitConfig /\ [][NextConfig]_vars

-----------------------------------------------------------------------------
(* Claims about load_config *)

Loaded == cfg_file.state # "never_read" /\ ~cfg_raised

\* the leaves of the configuration, as <<section, key>> with section "" at the top level
Leaves == {<<"", "commit_style">>, <<"", "diff_truncation_limit">>} \cup {<<"ai", k>> : k \in AiKeys}

LeafOf(items, leaf) == IF leaf[1] = "" THEN items[leaf[2]] ELSE items.ai.items[leaf[2]]

HasLeaf(items, leaf) ==
    IF leaf[1] = "" THEN leaf[2] \in DOMAIN items
    ELSE "ai" \in DOMAIN items /\ IsDict(items.ai) /\ leaf[2] \in DOMAIN items.ai.items

\* the file holds a mapping over a strict subset of the recognized keys
PartialRecognizedFile(f) ==
    /\ f.state = "present"
    /\ IsDict(f.doc)
    /\ DOMAIN f.doc.items \subseteq TopKeys
    /\ "ai" \in DOMAIN f.doc.items => IsDict(f.doc.items.ai) /\ DOMAIN f.doc.items.ai.items \subseteq AiKeys
    /\ \E leaf \in Leaves : ~HasLeaf(f.doc.items, leaf)

\* C5: load_config() on a file that is a mapping over a strict subset of the
\* recognized keys returns every default key, each leaf of the file with the
\* file's value and every other leaf with the hard-coded default; and merging
\* the defaults onto the defaults yields the defaults.
C5_PartialFileMergedOntoDefaults ==
    /\ MergeDicts(DefaultConfigLiteral, DefaultConfigLiteral) = DefaultConfigLiteral
    /\ (Loaded /\ PartialRecognizedFile(cfg_file)) =>
          /\ IsDict(cfg_result)
          /\ DOMAIN cfg_result.items = TopKeys
          /\ IsDict(cfg_result.items.ai)
          /\ DOMAIN cfg_result.items.ai.items = AiKeys
          /\ \A leaf \in Leaves :
                LeafOf(cfg_result.items, leaf) =
                    IF HasLeaf(cfg_file.doc.items, leaf)
                    THEN LeafOf(cfg_file.doc.items, leaf)
                    ELSE LeafOf(DefaultConfigLiteral, leaf)

\* reading or parsing the file failed
ReadOrParseFailed(f) == f.state \in {"unreadable", "malformed"}

\* C6: when reading or parsing the configuration file fails, load_config()
\* does not raise, warns, and returns the pure hard-coded defaults, whatever
\* earlier calls returned.
C6_FailureFallsBackToPureDefaults ==
    (cfg_file.state # "never_read" /\ ReadOrParseFailed(cfg_file)) =>
        /\ ~cfg_raised
        /\ "using_default" \in cfg_printed
        /\ IsDict(cfg_result)
        /\ cfg_result.items = DefaultConfigLiteral

\* C8: the global default configuration is never modified.
C8_DefaultConfigNeverModified == DEFAULT_CONFIG = DefaultConfigLiteral

====
